---------------------------- MODULE Spec2Model ----------------------------
(* A model of the weibo_hide client: the `hide` run of main.rs, which      *)
(* lists a user's posts page by page (get_all_weibo_ids over               *)
(* get_with_retry) and then sets the visibility of each selected post      *)
(* (set_weibo_privacy), one HTTP request at a time.                        *)
(*                                                                         *)
(* One step of the model is one HTTP attempt together with everything the  *)
(* code does with its outcome before the next request is sent.  The remote *)
(* side is the environment: every attempt's outcome is chosen freely among *)
(* a transport failure, a non-2xx response and a 2xx response.             *)
EXTENDS Integers, Sequences, FiniteSets, TLC

(***************************************************************************)
(* Bounds of the model.                                                    *)
(***************************************************************************)
\* posts the remote account holds at most
MaxPosts == 3
\* items the remote side puts on one page at most
MaxPageLen == 2
\* largest --max-pages value tried
MaxCeiling == 2
\* largest --skip value tried
MaxSkip == 1
\* largest --limit value tried
MaxLimit == 1

(***************************************************************************)
(* Program constants.                                                      *)
(***************************************************************************)
MAX_RETRIES_4 == 3 + 1
MAX_RETRIES == 3
PAGE_DELAY_SECS == 1
REPORT_LIMIT == 10
\* the debug prints of set_weibo_privacy show at most this many bytes of a body
DEBUG_BODY_BYTES == 200
DEBUG_ERROR_BYTES == 500

(***************************************************************************)
(* Option<T> is a sequence of length at most one.                          *)
(***************************************************************************)
None == <<>>
Some(v) == <<v>>
IsSome(o) == Len(o) = 1
Unwrap(o) == o[1]

Min(a, b) == IF a <= b THEN a ELSE b

(***************************************************************************)
(* What one attempt can yield.  An outcome is a transport failure          *)
(* (request.send() is Err) or a response with a status and a body.  A body *)
(* is unreadable (response.text() is Err), text that is not the expected   *)
(* JSON ("garbage"), or a JSON object with optional fields ok, msg and     *)
(* data.list.                                                              *)
(***************************************************************************)
TransportErrs == {"timeout", "dns"}
FailStatuses == {403, 500}
OkStatus == 200
NoContent == 204
\* a page of HTML in Chinese, and a message in Chinese
CjkPage == "cjk page"
CjkMsg == "cjk message"
FailTexts == {"busy", CjkPage}
Messages == {"rate limited", CjkMsg}
Flags == {0, 1}

(***************************************************************************)
(* A text is a Rust String: UTF-8.  Utf8(t) is its layout, a sequence of   *)
(* runs <<n, w>> of n characters of w bytes each.                          *)
(***************************************************************************)
JsonText(msg) == IF msg = Some(CjkMsg) THEN "cjk json" ELSE "json"

Utf8(t) ==
    CASE t = "" -> <<>>
      [] t = "busy" -> <<<<4, 1>>>>
      [] t = "<html>" -> <<<<6, 1>>>>
      [] t = "json" -> <<<<30, 1>>>>
      \* {"ok":0,"msg":" + 70 characters + "}
      [] t = "cjk json" -> <<<<15, 1>>, <<70, 3>>, <<2, 1>>>>
      \* 100 bytes of markup, 200 characters, 14 bytes of markup
      [] t = CjkPage -> <<<<100, 1>>, <<200, 3>>, <<14, 1>>>>

RECURSIVE ByteLen(_)
ByteLen(runs) ==
    IF runs = <<>> THEN 0 ELSE Head(runs)[1] * Head(runs)[2] + ByteLen(Tail(runs))

\* str::is_char_boundary
RECURSIVE IsCharBoundary(_, _)
IsCharBoundary(runs, n) ==
    IF n = 0 THEN TRUE
    ELSE IF runs = <<>> THEN FALSE
    ELSE LET bytes == Head(runs)[1] * Head(runs)[2] IN
         IF n <= bytes THEN n % Head(runs)[2] = 0
         ELSE IsCharBoundary(Tail(runs), n - bytes)

Body(shape, text, ok, msg, list) ==
    [shape |-> shape, text |-> text, ok |-> ok, msg |-> msg, list |-> list]
NoBody == Body("none", "", None, None, None)
Unreadable == Body("unreadable", "", None, None, None)
Garbage == Body("garbage", "<html>", None, None, None)
Empty == Body("garbage", "", None, None, None)
TextBody(t) == Body("garbage", t, None, None, None)
Object(ok, msg, list) == Body("object", JsonText(msg), ok, msg, list)

NoOutcome == [kind |-> "none", status |-> 0, error |-> "", body |-> NoBody]
TransportFailure(e) == [kind |-> "transport", status |-> 0, error |-> e, body |-> NoBody]
HttpResponse(s, b) == [kind |-> "response", status |-> s, error |-> "", body |-> b]

FailureOutcomes ==
    {TransportFailure(e) : e \in TransportErrs}
    \cup {HttpResponse(s, b) : s \in FailStatuses,
                               b \in {TextBody(t) : t \in FailTexts} \cup {Unreadable}}

\* The pages the remote side can serve after `acc` has been handed out: the
\* account's next posts, identified by their position in the account.
RemotePage(acc) ==
    {[i \in 1..n |-> Len(acc) + i] :
        n \in 0..Min(MaxPageLen, MaxPosts - Len(acc))}

ListBodies(acc) ==
    {Unreadable, Garbage}
    \cup {Object(ok, None, list) :
            ok \in {None} \cup {Some(f) : f \in Flags},
            list \in {None} \cup {Some(l) : l \in RemotePage(acc)}}

PrivacyBodies ==
    {Unreadable, Garbage}
    \cup {Object(ok, msg, None) :
            ok \in {None} \cup {Some(f) : f \in Flags},
            msg \in {None} \cup {Some(m) : m \in Messages}}

GetOutcomes(acc) ==
    FailureOutcomes
    \cup {HttpResponse(OkStatus, b) : b \in ListBodies(acc)}
    \cup {HttpResponse(NoContent, Empty)}

PostOutcomes ==
    FailureOutcomes
    \cup {HttpResponse(OkStatus, b) : b \in PrivacyBodies \cup {TextBody(CjkPage)}}
    \cup {HttpResponse(NoContent, Empty)}

(***************************************************************************)
(* Errors (anyhow messages) as records: the message's fixed part, the      *)
(* number and the text it is formatted with.                               *)
(***************************************************************************)
Error(kind, code, text) == [kind |-> kind, code |-> code, text |-> text]
NoError == Error("none", 0, "")

\* StatusCode::is_success
IsSuccess_200(status) == status = 200
IsSuccess(status) == status >= 200 /\ status <= 299

\* response.text().await.unwrap_or_default()
UnwrapOrDefault(body) == IF body.shape = "unreadable" THEN "" ELSE body.text

\* &text[..std::cmp::min(limit, text.len())]: the slice exists when its end is
\* a character boundary of text; otherwise the indexing panics
SliceOk(text, lim) == IsCharBoundary(Utf8(text), Min(lim, ByteLen(Utf8(text))))

\* Duration::from_secs(2u64.pow(retry))
GetBackoff_double(retry) == 2 ^ (retry + 1)
GetBackoff(retry) == 2 ^ retry
PostBackoff_double(retry) == 2 ^ (retry + 1)
PostBackoff(retry) == 2 ^ retry

\* retry == MAX_RETRIES - 1
GetIsFinal(retry) == retry = MAX_RETRIES - 1
PostIsFinal(retry) == retry = MAX_RETRIES - 1

(***************************************************************************)
(* get_with_retry: the body of one iteration of its loop, given the        *)
(* outcome of request.send().  ret is "ok" (return Ok(response)), "err"    *)
(* (return Err), "retry" (sleep `wait` seconds, next iteration) or "panic" *)
(* (the thread panics).                                                    *)
(***************************************************************************)
Step(ret, err, wait) == [ret |-> ret, err |-> err, wait |-> wait]

GetRetryStep(retry, o) ==
    IF o.kind = "response"
    THEN IF IsSuccess(o.status)
         THEN Step("ok", NoError, <<>>)
         ELSE IF GetIsFinal(retry)
              THEN Step("err", Error("HTTP error", o.status, UnwrapOrDefault(o.body)), <<>>)
              ELSE Step("retry", NoError, <<GetBackoff(retry)>>)
    ELSE IF GetIsFinal(retry)
         THEN Step("err", Error("Failed to request", 0, o.error), <<>>)
         ELSE Step("retry", NoError, <<GetBackoff(retry)>>)

(***************************************************************************)
(* set_weibo_privacy: the body of one iteration of its loop.               *)
(***************************************************************************)
\* serde_json::from_str::<PrivacyResponse>(&text): both fields are optional
ParsePrivacyResponse(body) ==
    IF body.shape = "object" THEN Some([ok |-> body.ok, msg |-> body.msg]) ELSE None

\* privacy_resp.msg.unwrap_or_else(|| "未知错误")
MsgOrPlaceholder(msg) == IF IsSome(msg) THEN Unwrap(msg) ELSE "unknown error"

\* the 2xx branch: read the body, print its first bytes, interpret it
PrivacyVerdict(body) ==
    IF body.shape = "unreadable"
    THEN Step("err", Error("body", 0, ""), <<>>)
    ELSE IF ~SliceOk(body.text, DEBUG_BODY_BYTES)
    THEN Step("panic", NoError, <<>>)
    ELSE LET parsed == ParsePrivacyResponse(body) IN
         IF IsSome(parsed) /\ IsSome(Unwrap(parsed).ok)
         THEN IF Unwrap(Unwrap(parsed).ok) = 1
              THEN Step("ok", NoError, <<>>)
              ELSE Step("err", Error("set failed", 0, MsgOrPlaceholder(Unwrap(parsed).msg)), <<>>)
         ELSE Step("ok", NoError, <<>>)

\* the non-2xx branch of the last attempt: print the body's first bytes,
\* return the error
PostHttpError(status, error_body) ==
    IF ~SliceOk(error_body, DEBUG_ERROR_BYTES)
    THEN Step("panic", NoError, <<>>)
    ELSE Step("err", Error("HTTP error", status, error_body), <<>>)

PostRetryStep(retry, o) ==
    IF o.kind = "response"
    THEN IF IsSuccess(o.status)
         THEN PrivacyVerdict(o.body)
         ELSE IF PostIsFinal(retry)
              THEN PostHttpError(o.status, UnwrapOrDefault(o.body))
              ELSE Step("retry", NoError, <<PostBackoff(retry)>>)
    ELSE IF PostIsFinal(retry)
         THEN Step("err", Error("request failed", 0, o.error), <<>>)
         ELSE Step("retry", NoError, <<PostBackoff(retry)>>)

(***************************************************************************)
(* get_all_weibo_ids: what the loop does with the response that            *)
(* get_with_retry returned.                                                *)
(***************************************************************************)
\* serde_json::from_str::<WeiboListResponse>: ok and data.list are required
ParseListResponse(body) ==
    IF body.shape = "object" /\ IsSome(body.ok) /\ IsSome(body.list)
    THEN Some([ok |-> Unwrap(body.ok), list |-> Unwrap(body.list)])
    ELSE None

\* page > max_pages, where max_pages is max_pages.unwrap_or(u32::MAX): without
\* a ceiling the test is false for every page number a run can reach
CeilingReached_early(p, mp) == IsSome(mp) /\ p >= Unwrap(mp)
CeilingReached(p, mp) == IsSome(mp) /\ p > Unwrap(mp)

\* weibo_response.ok != 1
FlagFails_never(ok) == FALSE
FlagFails(ok) == ok # 1

\* all_weibos.extend(weibos)
Extend_front(acc, weibos) == weibos \o acc
Extend(acc, weibos) == acc \o weibos

\* ret is "err" (return Err), "break" (leave the loop) or "next" (append,
\* page += 1, sleep)
PageStep(ret, err, acc) == [ret |-> ret, err |-> err, acc |-> acc]

\* page += 1
NextPage_skip(p) == p + 2
NextPage(p) == p + 1

ListPage(p, acc, body) ==
    IF body.shape = "unreadable"
    THEN PageStep("err", Error("body", 0, ""), acc)
    ELSE LET parsed == ParseListResponse(body) IN
         IF ~IsSome(parsed)
         THEN PageStep("err", Error("Failed to parse JSON response at page", p, ""), acc)
         ELSE IF FlagFails(Unwrap(parsed).ok)
              THEN PageStep("err", Error("API error: ok=", Unwrap(parsed).ok, ""), acc)
              ELSE IF Unwrap(parsed).list = <<>>
                   THEN PageStep("break", NoError, acc)
                   ELSE PageStep("next", NoError, Extend(acc, Unwrap(parsed).list))

(***************************************************************************)
(* main, Commands::Hide: the working set.                                  *)
(***************************************************************************)
\* weibos.into_iter().skip(skip).collect()
Skip_none(s, n) == s
Skip(s, n) == SubSeq(s, n + 1, Len(s))
\* weibos_to_process.truncate(n)
Truncate(s, n) == SubSeq(s, 1, Min(n, Len(s)))
\* failed_ids.iter().take(10)
Take(s, n) == SubSeq(s, 1, Min(n, Len(s)))

WorkingSet(weibos, s, l) ==
    IF IsSome(l) THEN Truncate(Skip(weibos, s), Unwrap(l)) ELSE Skip(weibos, s)

(***************************************************************************)
(* WeiboPrivacyClient::new and extract_xsrf_token.  A string is a sequence *)
(* of characters.                                                          *)
(***************************************************************************)
XSRF_TOKEN == <<"X", "S", "R", "F", "-", "T", "O", "K", "E", "N">>
XSRF_PREFIX == XSRF_TOKEN \o <<"=">>

\* char::is_whitespace, for the characters of the model
IsWhitespace(c) == c = " "

\* str::trim
RECURSIVE TrimStart(_)
TrimStart(s) ==
    IF s # <<>> /\ IsWhitespace(Head(s)) THEN TrimStart(Tail(s)) ELSE s
RECURSIVE TrimEnd(_)
TrimEnd(s) ==
    IF s # <<>> /\ IsWhitespace(s[Len(s)]) THEN TrimEnd(SubSeq(s, 1, Len(s) - 1)) ELSE s
Trim(s) == TrimEnd(TrimStart(s))

\* str::starts_with
StartsWith(s, prefix) ==
    Len(s) >= Len(prefix) /\ SubSeq(s, 1, Len(prefix)) = prefix

\* str::split(ch), collected: the pieces between the occurrences of ch, empty
\* pieces included
RECURSIVE SplitFrom(_, _, _)
SplitFrom(s, ch, piece) ==
    IF s = <<>> THEN <<piece>>
    ELSE IF Head(s) = ch THEN <<piece>> \o SplitFrom(Tail(s), ch, <<>>)
    ELSE SplitFrom(Tail(s), ch, Append(piece, Head(s)))
Split(s, ch) == SplitFrom(s, ch, <<>>)


\* Iterator::nth(1)
Nth1(ss) == IF Len(ss) >= 2 THEN Some(ss[2]) ELSE None

IsTokenSegment(seg) == StartsWith(Trim(seg), XSRF_PREFIX)

\* Iterator::find
RECURSIVE Find(_)
Find(ss) ==
    IF ss = <<>> THEN None
    ELSE IF IsTokenSegment(Head(ss)) THEN Some(Head(ss)) ELSE Find(Tail(ss))

extract_xsrf_token(c) ==
    LET found == Find(Split(c, ";")) IN
    IF ~IsSome(found) THEN None
    ELSE LET value == Nth1(Split(Unwrap(found), "=")) IN
         IF ~IsSome(value) THEN None ELSE Some(Trim(Unwrap(value)))

\* WeiboPrivacyClient::new; built says whether Client::builder()..build()
\* succeeded
Client(ok, c, token, err) == [ok |-> ok, cookie |-> c, xsrf_token |-> token, err |-> err]
New(c, built) ==
    LET token == extract_xsrf_token(c) IN
    IF ~IsSome(token) THEN Client(FALSE, <<>>, <<>>, "AuthError")
    ELSE IF ~built THEN Client(FALSE, <<>>, <<>>, "Failed to build HTTP client")
    ELSE Client(TRUE, c, Unwrap(token), "")

\* SUB=a; XSRF-TOKEN=ab
DefaultCookie == <<"S", "U", "B", "=", "a", ";", " ">> \o XSRF_PREFIX \o <<"a", "b">>

(***************************************************************************)
(* Visibility and its wire code.                                           *)
(***************************************************************************)
Levels == {"Public", "Private", "FriendsOnly", "FansOnly"}

\* the discriminants of enum Visibility
EnumCode(v) ==
    CASE v = "Public" -> 0
      [] v = "Private" -> 1
      [] v = "FriendsOnly" -> 2
      [] v = "FansOnly" -> 10

\* set_weibo_privacy: let visible_value = match visibility { .. }
VisibleValue_swapped(v) ==
    CASE v = "Public" -> 0
      [] v = "FriendsOnly" -> 1
      [] v = "Private" -> 2
      [] v = "FansOnly" -> 10
VisibleValue(v) ==
    CASE v = "Public" -> 0
      [] v = "FriendsOnly" -> 2
      [] v = "Private" -> 1
      [] v = "FansOnly" -> 10

\* vec![("ids", weibo_id), ("visible", visible_str.as_str())]
Params(weibo_id, v) == [ids |-> weibo_id, visible |-> VisibleValue(v)]

(***************************************************************************)
(* State.                                                                  *)
(***************************************************************************)
VARIABLES
    max_pages,          \* --max-pages: Option<u32>
    skip,               \* --skip
    limit,              \* --limit: Option<usize>
    dry_run,            \* --dry-run
    pc,                 \* where main is: "list", "listed", "confirm", "mutate",
                        \* "exit_ok" (main returned Ok), "exit_err" (Err) or
                        \* "panic" (the process died of a panic)
    page,               \* get_all_weibo_ids: page
    all_weibos,         \* get_all_weibo_ids: all_weibos
    retry,              \* the loop variable of the running retry loop
    listResult,         \* what get_all_weibo_ids returned
    weibos_to_process,  \* main: the working set
    idx,                \* main: position of the for loop in the working set
    success_count,
    failed_count,
    failed_ids,
    reported,           \* the failure lines main printed at the end
    \* what an observer of the run has seen
    \* of the current retried operation (one get_with_retry call, one
    \* set_weibo_privacy call), from its first attempt on:
    opReqs,             \* number of HTTP requests sent
    last,               \* outcome of the latest attempt
    opWaits,            \* backoff sleeps (seconds), in order
    opResult,           \* what the operation returned, once it has
    \* of the get_all_weibo_ids call, until main has taken its result:
    reqPages,           \* page number of every get_with_retry call
    getCount,           \* number of GET requests sent
    got,                \* the item lists of the pages appended
    pauses,             \* inter-page sleeps (seconds), in order
    \* of the batch:
    calls,              \* item id of every set_weibo_privacy call
    results,            \* what each set_weibo_privacy call returned
    \* the session:
    cookie,             \* the credential string given to WeiboPrivacyClient::new
    client,             \* what WeiboPrivacyClient::new returned, once it has
    \* the two retry loops side by side:
    visibility_level,   \* the level given to set_weibo_privacy
    feed,               \* the outcomes the attempts of both loops are given
    getRun,             \* get_with_retry on feed
    postRun             \* set_weibo_privacy on feed

args == <<max_pages, skip, limit, dry_run>>
listerVars == <<page, all_weibos, listResult>>
batchVars == <<weibos_to_process, idx, success_count, failed_count, failed_ids, reported>>
opVars == <<retry, opReqs, last, opWaits, opResult>>
listLog == <<reqPages, getCount, got, pauses>>
batchLog == <<calls, results>>
sessionVars == <<cookie, client>>
loopVars == <<visibility_level, feed, getRun, postRun>>
vars == <<args, pc, listerVars, batchVars, opVars, listLog, batchLog,
          sessionVars, loopVars>>

Result(done, ok, err) == [done |-> done, ok |-> ok, err |-> err]
Pending == Result(FALSE, FALSE, NoError)
Ok == Result(TRUE, TRUE, NoError)
Err(e) == Result(TRUE, FALSE, e)

\* the state of main's variables before get_all_weibo_ids is called
BeforeListing ==
    /\ page = 1
    /\ all_weibos = <<>>
    /\ retry = 0
    /\ listResult = [done |-> FALSE, ok |-> FALSE, val |-> <<>>, err |-> NoError]
    /\ weibos_to_process = <<>>
    /\ idx = 1
    /\ success_count = 0
    /\ failed_count = 0
    /\ failed_ids = <<>>
    /\ reported = <<>>
    /\ opReqs = 0
    /\ last = NoOutcome
    /\ opWaits = <<>>
    /\ opResult = Pending
    /\ reqPages = <<>>
    /\ getCount = 0
    /\ got = <<>>
    /\ pauses = <<>>
    /\ calls = <<>>
    /\ results = <<>>

\* a retry loop that has not started
IdleRun == [retry |-> 0, reqs |-> 0, waits |-> <<>>, ret |-> "running", form |-> None]

Init ==
    /\ max_pages \in {None} \cup {Some(c) : c \in 0..MaxCeiling}
    /\ skip \in 0..MaxSkip
    /\ limit \in {None} \cup {Some(n) : n \in 0..MaxLimit}
    /\ dry_run \in BOOLEAN
    /\ pc = "list"
    /\ BeforeListing
    /\ cookie = DefaultCookie
    /\ client = Some(New(DefaultCookie, TRUE))
    /\ visibility_level = "FriendsOnly"
    /\ feed = <<>>
    /\ getRun = IdleRun
    /\ postRun = IdleRun

\* the observations of an operation start afresh with its first attempt
OpReqs == IF retry = 0 THEN 0 ELSE opReqs
OpWaits == IF retry = 0 THEN <<>> ELSE opWaits

ListReturns(r) ==
    /\ pc' = "listed"
    /\ listResult' = r

(***************************************************************************)
(* get_all_weibo_ids, top of the loop with the page ceiling passed:        *)
(* break, return Ok(all_weibos).                                           *)
(***************************************************************************)
ListCeiling ==
    /\ pc = "list"
    /\ CeilingReached(page, max_pages)
    /\ ListReturns([done |-> TRUE, ok |-> TRUE, val |-> all_weibos, err |-> NoError])
    /\ UNCHANGED <<sessionVars, loopVars, args, page, all_weibos, batchVars, opVars, listLog, batchLog>>

(***************************************************************************)
(* One attempt of get_with_retry for the current page and, when it         *)
(* returns, the rest of the iteration of get_all_weibo_ids.                *)
(***************************************************************************)
GetAttempt ==
    /\ pc = "list"
    /\ ~CeilingReached(page, max_pages)
    /\ retry < MAX_RETRIES
    /\ \E o \in GetOutcomes(all_weibos) :
        LET st == GetRetryStep(retry, o)
            pg == ListPage(page, all_weibos, o.body)
        IN
        /\ opReqs' = OpReqs + 1
        /\ last' = o
        /\ opWaits' = OpWaits \o st.wait
        /\ reqPages' = IF retry = 0 THEN Append(reqPages, page) ELSE reqPages
        /\ getCount' = getCount + 1
        /\ CASE st.ret = "retry" ->
                /\ retry' = retry + 1
                /\ opResult' = Pending
                /\ UNCHANGED <<pc, page, all_weibos, listResult, got, pauses>>
             [] st.ret = "err" ->
                /\ retry' = 0
                /\ opResult' = Err(st.err)
                /\ ListReturns([done |-> TRUE, ok |-> FALSE, val |-> <<>>, err |-> st.err])
                /\ UNCHANGED <<page, all_weibos, got, pauses>>
             [] st.ret = "ok" ->
                /\ retry' = 0
                /\ opResult' = Ok
                /\ CASE pg.ret = "err" ->
                        /\ ListReturns([done |-> TRUE, ok |-> FALSE, val |-> <<>>, err |-> pg.err])
                        /\ UNCHANGED <<page, all_weibos, got, pauses>>
                     [] pg.ret = "break" ->
                        /\ ListReturns([done |-> TRUE, ok |-> TRUE, val |-> all_weibos, err |-> NoError])
                        /\ UNCHANGED <<page, all_weibos, got, pauses>>
                     [] pg.ret = "next" ->
                        /\ all_weibos' = pg.acc
                        /\ page' = NextPage(page)
                        /\ got' = Append(got, Unwrap(o.body.list))
                        /\ pauses' = Append(pauses, PAGE_DELAY_SECS)
                        /\ UNCHANGED <<pc, listResult>>
    /\ UNCHANGED <<sessionVars, loopVars, args, batchVars, batchLog>>

(***************************************************************************)
(* main after get_all_weibo_ids returned: `?`, the empty checks, skip and  *)
(* limit, the dry run.                                                     *)
(***************************************************************************)
\* if dry_run { .. return Ok(()) }
DryRunReturns_never(d) == FALSE
DryRunReturns(d) == d

\* the `?` on the result of get_all_weibo_ids
ListFailed_ignored(r) == FALSE
ListFailed(r) == ~r.ok

AfterList ==
    /\ pc = "listed"
    /\ IF ListFailed(listResult)
       THEN /\ pc' = "exit_err"
            /\ UNCHANGED weibos_to_process
       ELSE IF listResult.val = <<>>
       THEN /\ pc' = "exit_ok"
            /\ UNCHANGED weibos_to_process
       ELSE /\ weibos_to_process' = WorkingSet(listResult.val, skip, limit)
            /\ pc' = IF weibos_to_process' = <<>> \/ DryRunReturns(dry_run)
                     THEN "exit_ok" ELSE "confirm"
    \* the frame of get_all_weibo_ids is gone, and with it what was observed
    \* of the call
    /\ page' = 1
    /\ all_weibos' = <<>>
    /\ reqPages' = <<>>
    /\ getCount' = 0
    /\ got' = <<>>
    /\ pauses' = <<>>
    /\ UNCHANGED <<sessionVars, loopVars, args, listResult, idx, success_count, failed_count, failed_ids,
                   reported, opVars, batchLog>>

\* std::io::stdin().read_line(&mut input)?
Confirm ==
    /\ pc = "confirm"
    /\ \E ioOk \in BOOLEAN : pc' = IF ioOk THEN "mutate" ELSE "exit_err"
    /\ UNCHANGED <<sessionVars, loopVars, args, listerVars, batchVars, opVars, listLog, batchLog>>

(***************************************************************************)
(* One attempt of set_weibo_privacy for the current item and, when it      *)
(* returns, the rest of the iteration of main's for loop.                  *)
(***************************************************************************)
PostAttempt ==
    /\ pc = "mutate"
    /\ idx <= Len(weibos_to_process)
    /\ retry < MAX_RETRIES
    /\ \E o \in PostOutcomes :
        LET st == PostRetryStep(retry, o)
            id == weibos_to_process[idx]
        IN
        /\ opReqs' = OpReqs + 1
        /\ last' = o
        /\ opWaits' = OpWaits \o st.wait
        /\ calls' = IF retry = 0 THEN Append(calls, id) ELSE calls
        /\ CASE st.ret = "retry" ->
                /\ retry' = retry + 1
                /\ opResult' = Pending
                /\ UNCHANGED <<pc, idx, success_count, failed_count, failed_ids, results>>
             [] st.ret = "ok" ->
                /\ retry' = 0
                /\ opResult' = Ok
                /\ results' = Append(results, Ok)
                /\ success_count' = success_count + 1
                /\ idx' = idx + 1
                /\ UNCHANGED <<pc, failed_count, failed_ids>>
             [] st.ret = "err" ->
                /\ retry' = 0
                /\ opResult' = Err(st.err)
                /\ results' = Append(results, Err(st.err))
                /\ failed_count' = failed_count + 1
                /\ failed_ids' = Append(failed_ids, <<id, st.err>>)
                /\ idx' = idx + 1
                /\ UNCHANGED <<pc, success_count>>
             [] st.ret = "panic" ->
                \* the panic unwinds main: the process ends
                /\ pc' = "panic"
                /\ opResult' = Pending
                /\ UNCHANGED <<retry, idx, success_count, failed_count, failed_ids, results>>
    /\ UNCHANGED <<sessionVars, loopVars, args, listerVars, weibos_to_process, reported, listLog>>

(***************************************************************************)
(* WeiboPrivacyClient::new on a credential string.  The strings are one or *)
(* two segments key=value joined by ';', with or without blanks around.    *)
(***************************************************************************)
Keys == {XSRF_TOKEN, XSRF_TOKEN \o <<" ">>, <<"S", "U", "B">>}
Values == {<<>>, <<" ">>, <<"a">>, <<" ", "a", " ">>, <<"a", "=", "b">>, <<"a", "=">>}
Pads == {<<>>, <<" ">>}
Segments ==
    {p \o k \o <<"=">> \o v : p \in Pads, k \in Keys, v \in Values}
    \cup {<<>>, <<"S", "e", "c", "u", "r", "e">>}
Cookies == Segments \cup {a \o <<";">> \o b : a, b \in Segments}

InitSession ==
    /\ max_pages = None
    /\ skip = 0
    /\ limit = None
    /\ dry_run = FALSE
    /\ pc = "new"
    /\ BeforeListing
    /\ cookie \in Cookies
    /\ client = None
    /\ visibility_level = "FriendsOnly"
    /\ feed = <<>>
    /\ getRun = IdleRun
    /\ postRun = IdleRun

\* let client = WeiboPrivacyClient::new(cookie_data)?;
NewClient ==
    /\ pc = "new"
    /\ \E built \in BOOLEAN :
        LET r == New(cookie, built) IN
        /\ client' = Some(r)
        /\ pc' = IF r.ok THEN "ready" ELSE "exit_err"
    /\ UNCHANGED <<args, listerVars, batchVars, opVars, listLog, batchLog,
                   cookie, loopVars>>

SpecSession == InitSession /\ [][NewClient]_vars

(***************************************************************************)
(* The two retry loops on one feed of attempt outcomes: get_with_retry and *)
(* the loop of set_weibo_privacy, each taking its next attempt's outcome   *)
(* from feed.                                                              *)
(***************************************************************************)
FeedOutcomes ==
    FailureOutcomes
    \cup {HttpResponse(OkStatus, Object(Some(1), None, None)),
          HttpResponse(OkStatus, TextBody(CjkPage)),
          HttpResponse(NoContent, Empty)}

\* how a loop ended: the 2xx response went on to the code after the request,
\* or the loop returned an HTTP error or a transport error, or it panicked
GetEnd(st) ==
    CASE st.ret = "retry" -> "running"
      [] st.ret = "ok" -> "2xx"
      [] st.ret = "err" /\ st.err.kind = "HTTP error" -> "HTTP error"
      [] OTHER -> "transport error"

PostEnd(st, o) ==
    CASE st.ret = "retry" -> "running"
      [] st.ret = "err" /\ st.err.kind = "HTTP error" -> "HTTP error"
      [] st.ret = "err" /\ st.err.kind = "request failed" -> "transport error"
      [] st.ret = "panic" /\ ~(o.kind = "response" /\ IsSuccess(o.status)) -> "panic"
      [] OTHER -> "2xx"

InitLoops ==
    /\ max_pages = None
    /\ skip = 0
    /\ limit = None
    /\ dry_run = FALSE
    /\ pc = "loops"
    /\ BeforeListing
    /\ cookie = DefaultCookie
    /\ client = Some(New(DefaultCookie, TRUE))
    /\ visibility_level \in Levels
    /\ feed \in [1..MAX_RETRIES -> FeedOutcomes]
    /\ getRun = IdleRun
    /\ postRun = IdleRun

GetLoopAttempt ==
    /\ pc = "loops"
    /\ getRun.ret = "running"
    /\ getRun.retry < MAX_RETRIES
    /\ LET st == GetRetryStep(getRun.retry, feed[getRun.retry + 1]) IN
       getRun' = [retry |-> IF st.ret = "retry" THEN getRun.retry + 1 ELSE getRun.retry,
                  reqs |-> getRun.reqs + 1,
                  waits |-> getRun.waits \o st.wait,
                  ret |-> GetEnd(st),
                  form |-> None]
    /\ UNCHANGED <<args, pc, listerVars, batchVars, opVars, listLog, batchLog,
                   sessionVars, visibility_level, feed, postRun>>

PostLoopAttempt ==
    /\ pc = "loops"
    /\ postRun.ret = "running"
    /\ postRun.retry < MAX_RETRIES
    /\ LET o == feed[postRun.retry + 1]
           st == PostRetryStep(postRun.retry, o)
       IN
       postRun' = [retry |-> IF st.ret = "retry" THEN postRun.retry + 1 ELSE postRun.retry,
                   reqs |-> postRun.reqs + 1,
                   waits |-> postRun.waits \o st.wait,
                   ret |-> PostEnd(st, o),
                   form |-> Some(Params(1, visibility_level))]
    /\ UNCHANGED <<args, pc, listerVars, batchVars, opVars, listLog, batchLog,
                   sessionVars, visibility_level, feed, getRun>>

NextLoops == GetLoopAttempt \/ PostLoopAttempt

SpecLoops == InitLoops /\ [][NextLoops]_vars

(***************************************************************************)
(* main after the for loop: the final report.                              *)
(***************************************************************************)
Report ==
    /\ pc = "mutate"
    /\ idx > Len(weibos_to_process)
    /\ pc' = "exit_ok"
    /\ reported' = IF failed_count > 0 THEN Take(failed_ids, REPORT_LIMIT) ELSE <<>>
    /\ UNCHANGED <<sessionVars, loopVars, args, listerVars, weibos_to_process, idx, success_count,
                   failed_count, failed_ids, opVars, listLog, batchLog>>

Next ==
    \/ ListCeiling
    \/ GetAttempt
    \/ AfterList
    \/ Confirm
    \/ PostAttempt
    \/ Report

Spec == Init /\ [][Next]_vars

\* every request that is issued yields an outcome: an attempt that can be
\* made is made, and the loop of the listing that can break does
FairSpec ==
    /\ Spec
    /\ WF_vars(GetAttempt)
    /\ WF_vars(ListCeiling)
    /\ WF_vars(PostAttempt)

(***************************************************************************)
(* Properties.                                                             *)
(***************************************************************************)
RECURSIVE Flatten(_)
Flatten(ss) == IF ss = <<>> THEN <<>> ELSE Head(ss) \o Flatten(Tail(ss))

UpTo(n) == [i \in 1..n |-> i]

\* the latest attempt received a 2xx response / failed
Got2xx == last.kind = "response" /\ last.status \in 200..299
GotFailure == last.kind = "transport"
              \/ (last.kind = "response" /\ last.status \notin 200..299)
\* the text of the latest response's body, empty when it could not be read
LastText == IF last.body.shape = "unreadable" THEN "" ELSE last.body.text
\* the errors the retry policy itself returns
RetryLevel(e) == e.kind \in {"HTTP error", "Failed to request", "request failed"}
\* the current operation is a page fetch / a set_weibo_privacy call
InFetch == pc \in {"list", "listed"} /\ reqPages # <<>>
InMutation == calls # <<>>
\* the latest response is a page envelope with the success flag and no items
EmptyPage == Got2xx /\ last.body.shape = "object"
             /\ last.body.ok = Some(1) /\ last.body.list = Some(<<>>)

\* C1: no operation (one page fetch through get_with_retry, one
\* set_weibo_privacy call) sends more than 3 HTTP requests, whatever the
\* outcomes of its attempts.
C1_AtMostThreeRequests == opReqs <= 3
C1_Witness == InMutation /\ opReqs = 3 /\ opResult.done /\ GotFailure

\* C2: an operation returns a retry-level error exactly when it has made 3
\* attempts and the third failed; a failure of attempt 1 or 2 leaves the
\* operation running with another attempt to come; and the error returned
\* carries the third attempt's status and body, or its transport error text.
C2_ErrorOnlyAfterThreeFailures ==
    /\ (opResult.done /\ ~opResult.ok /\ RetryLevel(opResult.err))
            <=> (opReqs = 3 /\ GotFailure)
    /\ (opReqs \in {1, 2} /\ GotFailure)
            => (~opResult.done /\ retry = opReqs /\ pc \in {"list", "mutate"})
    /\ (opResult.done /\ RetryLevel(opResult.err))
            => IF last.kind = "response"
               THEN /\ opResult.err.kind = "HTTP error"
                    /\ opResult.err.code = last.status
                    /\ opResult.err.text = LastText
               ELSE /\ opResult.err.kind \in {"Failed to request", "request failed"}
                    /\ opResult.err.text = last.error
C2_Witness ==
    /\ InMutation /\ opReqs = 3 /\ last.kind = "response" /\ last.status = 500
    /\ opResult = Err(Error("HTTP error", 500, "busy"))

\* C3: an attempt that receives a 2xx response ends the retrying of its
\* operation at once: no backoff wait follows that attempt and the operation
\* sends no further request (it has returned, so that the next request, if
\* any, is the first attempt of another operation, or the process is dead);
\* get_with_retry returns Ok on that response.
C3_SuccessShortCircuits ==
    Got2xx => /\ (opResult.done /\ retry = 0) \/ pc = "panic"
              /\ Len(opWaits) = opReqs - 1
              /\ (InFetch => opResult.ok)
C3_Witness == InFetch /\ Got2xx /\ last.status = 204 /\ opReqs = 2 /\ opWaits = <<1>>

\* C4: the backoff waits of an operation are a prefix of <<1, 2>> seconds:
\* none before the first attempt, 2^k seconds after failed attempt k (k = 0,
\* 1) and none after the attempt the operation returns on; so fail, fail,
\* success is 3 requests with waits 1s, 2s, and exhaustion waits 3s in all.
C4_BackoffSchedule ==
    /\ opWaits = SubSeq(<<1, 2>>, 1, Len(opWaits))
    /\ opReqs = 0 => opWaits = <<>>
    /\ opReqs > 0 => Len(opWaits) = IF opResult.done \/ pc = "panic"
                                     THEN opReqs - 1 ELSE opReqs
C4_Witness == InFetch /\ opReqs = 3 /\ Got2xx /\ opResult.ok /\ opWaits = <<1, 2>>

\* C5: when pages 1..k came back with the success flag and items and page k+1
\* comes back with the success flag and no items, get_all_weibo_ids returns
\* Ok with exactly the items of pages 1..k in order, having asked for pages
\* 1..k+1 and no other.
C5_StopsAtEmptyPage ==
    (InFetch /\ EmptyPage)
        => /\ pc = "listed"
           /\ listResult.done /\ listResult.ok
           /\ listResult.val = Flatten(got)
           /\ \A i \in DOMAIN got : got[i] # <<>>
           /\ reqPages = UpTo(Len(got) + 1)
C5_Witness ==
    /\ InFetch /\ EmptyPage /\ Len(got) = 2 /\ Len(got[1]) = 2
    /\ listResult.val = <<1, 2, 3>>

\* C6: with ceiling c no page above c is asked for; and when the call returns
\* Ok without having met an empty page, it has appended exactly pages 1..c,
\* asked for exactly those pages (c requests when every fetch succeeded at
\* its first attempt) and returns their concatenation.
C6_PageCeiling ==
    IsSome(max_pages) =>
        LET c == Unwrap(max_pages) IN
        /\ \A i \in DOMAIN reqPages : reqPages[i] <= c
        /\ (pc = "listed" /\ listResult.ok /\ ~EmptyPage)
                => /\ Len(got) = c
                   /\ reqPages = UpTo(c)
                   /\ listResult.val = Flatten(got)
                   /\ (getCount = Len(reqPages) => getCount = c)
C6_Witness ==
    /\ pc = "listed" /\ max_pages = Some(2) /\ listResult.ok /\ ~EmptyPage
    /\ getCount = 2 /\ Len(listResult.val) < MaxPosts

\* C7: a page whose fetch fails for good, whose body is not a page envelope
\* or whose flag is not the success value ends the listing at once with an
\* error: nothing of what pages 1..n-1 gave is returned and page n is the
\* last page asked for.
PageFails ==
    \/ (opResult.done /\ ~opResult.ok)
    \/ (Got2xx /\ (\/ last.body.shape # "object"
                   \/ last.body.ok = None
                   \/ last.body.list = None
                   \/ last.body.ok # Some(1)))
C7_ListingAllOrNothing ==
    (InFetch /\ PageFails)
        => /\ pc = "listed"
           /\ listResult.done /\ ~listResult.ok
           /\ listResult.val = <<>>
           /\ retry = 0
           /\ reqPages = UpTo(Len(got) + 1)
C7_Witness ==
    /\ InFetch /\ Got2xx /\ last.body.ok = Some(0) /\ last.body.list # None
    /\ Len(got) = 1 /\ all_weibos # <<>>
    /\ listResult.err = Error("API error: ok=", 0, "")

\* C8: set_weibo_privacy returns Ok exactly when an attempt receives a 2xx
\* response whose body has the flag 1 or has no flag (the field is absent or
\* the body is not the envelope); a 2xx body that does not parse is a success.
NoFlagOrOne(b) ==
    \/ b.shape = "garbage"
    \/ (b.shape = "object" /\ (b.ok = None \/ b.ok = Some(1)))
C8_MutationSuccess ==
    InMutation =>
        /\ (opResult.done /\ opResult.ok) <=> (Got2xx /\ NoFlagOrOne(last.body))
        /\ opResult.done => results[Len(results)] = opResult
C8_Witness ==
    /\ InMutation /\ Got2xx /\ last.body.shape = "garbage"
    /\ opResult = Ok /\ success_count > 0

\* C9: a 2xx response whose envelope has a flag other than 1 makes
\* set_weibo_privacy return the mutation error with the envelope's message,
\* or the placeholder when there is none, on whichever attempt it comes, and
\* the call is not retried.
C9_MutationErrorIsFinal ==
    (InMutation /\ Got2xx /\ last.body.shape = "object"
        /\ IsSome(last.body.ok) /\ last.body.ok # Some(1))
        => /\ opResult = Err(Error("set failed", 0,
                                   IF IsSome(last.body.msg) THEN Unwrap(last.body.msg)
                                   ELSE "unknown error"))
           /\ results[Len(results)] = opResult
           /\ retry = 0
           /\ Len(opWaits) = opReqs - 1
C9_Witness ==
    /\ InMutation /\ Got2xx /\ last.body.ok = Some(0)
    /\ last.body.msg = Some("rate limited") /\ opReqs = 2
    /\ opResult.err.text = "rate limited"

\* C10: a failing set_weibo_privacy call never ends the batch: the calls made
\* are the items of the working set in order, one each; once a call has been
\* made the run can only end through the final report, and then every item
\* has had its call and success_count + failed_count is the size of the
\* working set.
C10_BatchContinues ==
    /\ calls = SubSeq(weibos_to_process, 1, Len(calls))
    /\ InMutation => pc \in {"mutate", "exit_ok"}
    /\ (InMutation /\ pc = "mutate" /\ retry = 0)
            => /\ idx = Len(calls) + 1
               /\ success_count + failed_count = Len(calls)
    /\ (InMutation /\ pc = "exit_ok")
            => /\ calls = weibos_to_process
               /\ success_count + failed_count = Len(weibos_to_process)
C10_Witness ==
    /\ pc = "exit_ok" /\ Len(calls) = 3 /\ ~results[1].ok /\ results[2].ok
    /\ failed_count = 2 /\ success_count = 1

\* C11: no set_weibo_privacy call is made unless get_all_weibo_ids has
\* returned Ok before it; when the listing returns an error the run ends with
\* that error, with no working set and no mutation request.
C11_ListingErrorHaltsRun ==
    /\ InMutation => (listResult.done /\ listResult.ok)
    /\ pc \in {"confirm", "mutate", "panic"} => (listResult.done /\ listResult.ok)
    /\ (listResult.done /\ ~listResult.ok)
            => /\ pc \in {"listed", "exit_err"}
               /\ weibos_to_process = <<>>
               /\ calls = <<>>
C11_Witness ==
    /\ pc = "exit_err" /\ listResult.done /\ ~listResult.ok
    /\ listResult.err.kind = "HTTP error" /\ calls = <<>>

\* C12: when a run that made mutation calls is over, the failure report names
\* exactly the items whose set_weibo_privacy call returned an error, each
\* with the error it returned.
FailedCalls == {i \in DOMAIN results : ~results[i].ok}
RunOver == pc \in {"exit_ok", "exit_err", "panic"}
C12_AllFailuresReported ==
    (InMutation /\ RunOver)
        => /\ {reported[i][1] : i \in DOMAIN reported} = {calls[i] : i \in FailedCalls}
           /\ \A i \in FailedCalls :
                \E j \in DOMAIN reported : reported[j] = <<calls[i], results[i].err>>

\* C13: the two retry loops are one policy: on the same feed of attempt
\* outcomes, get_with_retry and the loop of set_weibo_privacy issue the same
\* number of requests, wait the same backoffs and end at the same attempt in
\* the same way (2xx handed on, HTTP error, transport error).
BothEnded == getRun.ret # "running" /\ postRun.ret # "running"
C13_SameRetryPolicy ==
    /\ getRun.reqs = postRun.reqs
            => /\ getRun.waits = postRun.waits
               /\ getRun.ret = postRun.ret
               /\ getRun.retry = postRun.retry
    /\ BothEnded => getRun.reqs = postRun.reqs

C13_Witness ==
    /\ BothEnded
    /\ getRun.reqs = MAX_RETRIES
    /\ getRun.ret = "HTTP error"
    /\ postRun.ret = "HTTP error"
    /\ getRun.waits = postRun.waits

\* the same, wherever the mutation loop does not panic
C13_SameUnlessPanic == postRun.ret # "panic" => C13_SameRetryPolicy

\* C17: the four levels have four distinct codes 0, 1, 2, 10, and the visible
\* value of every request of set_weibo_privacy is the code that enum
\* Visibility declares for the level of the call.
C17_VisibleIsEnumCode ==
    /\ \A a, b \in Levels : a # b => EnumCode(a) # EnumCode(b)
    /\ {EnumCode(v) : v \in Levels} = {0, 1, 2, 10}
    /\ IsSome(postRun.form)
            => /\ Unwrap(postRun.form).visible = EnumCode(visibility_level)
               /\ Unwrap(postRun.form).ids = 1

C17_Witness ==
    /\ visibility_level = "Private"
    /\ postRun.reqs = MAX_RETRIES
    /\ IsSome(postRun.form)
    /\ Unwrap(postRun.form).visible = 1

\* C14: an inter-page pause of one second happens only after a non-empty
\* page was appended and is followed by the request for the next page: when
\* the listing has returned, every pause has a later page request, and a
\* listing of n requests that each succeeded at once made n - 1 pauses.
FirstTryOnly == getCount = Len(reqPages)
C14_PausesBetweenRequests ==
    InFetch =>
        /\ Len(pauses) = Len(got)
        /\ \A i \in DOMAIN pauses : pauses[i] = PAGE_DELAY_SECS
        /\ pc = "listed" => \A i \in DOMAIN pauses : i + 1 \in DOMAIN reqPages
        /\ (pc = "listed" /\ FirstTryOnly) => Len(pauses) = getCount - 1

\* the same without a page ceiling
C14_WithoutCeiling == max_pages = None => C14_PausesBetweenRequests

\* What the specification says of a credential string: its token segment is
\* the first segment, between semicolons, whose key (the text before its
\* first '=') trimmed is the token name, and its token is the text after that
\* '=' up to the end of the segment, trimmed.
HasEq(seg) == \E i \in DOMAIN seg : seg[i] = "="
FirstEq(seg) == CHOOSE i \in DOMAIN seg : seg[i] = "=" /\ \A j \in 1..(i - 1) : seg[j] # "="
KeyOf(seg) == Trim(SubSeq(seg, 1, FirstEq(seg) - 1))
ValueOf(seg) == Trim(SubSeq(seg, FirstEq(seg) + 1, Len(seg)))
WellFormed(seg) == HasEq(seg) /\ KeyOf(seg) = XSRF_TOKEN
TokenSegments(c) == {i \in DOMAIN Split(c, ";") : WellFormed(Split(c, ";")[i])}
HasTokenSegment(c) == TokenSegments(c) # {}
TokenOf(c) ==
    LET i == CHOOSE i \in TokenSegments(c) : \A j \in TokenSegments(c) : i <= j
    IN ValueOf(Split(c, ";")[i])
Constructed == IsSome(client) /\ Unwrap(client).ok
Refused == IsSome(client) /\ ~Unwrap(client).ok /\ Unwrap(client).err = "AuthError"
BuilderFailed == IsSome(client) /\ Unwrap(client).err = "Failed to build HTTP client"

\* C15: a client that new returned holds a non-empty token that comes from
\* its credential string; a credential string without token segment, or
\* whose token is empty, is refused with AuthError and no client exists.
C15_TokenNeverEmpty ==
    /\ Constructed
            => /\ Unwrap(client).xsrf_token # <<>>
               /\ Unwrap(client).cookie = cookie
               /\ HasTokenSegment(cookie)
    /\ (IsSome(client) /\ ~HasTokenSegment(cookie)) => Refused
    /\ (IsSome(client) /\ HasTokenSegment(cookie) /\ TokenOf(cookie) = <<>>)
            => /\ ~Constructed
               /\ ~BuilderFailed => Refused

\* C16: a credential string with a well-formed token segment (and a token
\* in it) gives a client, unless the HTTP client cannot be built, whose
\* token is the text between the segment's first '=' and the next ';' or the
\* end, trimmed, '=' characters of that text included.
C16_TokenIsWholeValue ==
    (IsSome(client) /\ HasTokenSegment(cookie) /\ TokenOf(cookie) # <<>> /\ ~BuilderFailed)
        => /\ Constructed
           /\ Unwrap(client).xsrf_token = TokenOf(cookie)

\* the construction agrees with the specification's token on every
\* credential string whose token segment has no blank before its '=' and
\* whose token is not empty and holds no '='
PlainToken(c) ==
    /\ HasTokenSegment(c)
    /\ TokenOf(c) # <<>>
    /\ ~HasEq(TokenOf(c))
    /\ \A i \in TokenSegments(c) : IsTokenSegment(Split(c, ";")[i])
C16_PlainTokens ==
    (IsSome(client) /\ PlainToken(cookie) /\ ~BuilderFailed)
        => /\ Constructed
           /\ Unwrap(client).xsrf_token = TokenOf(cookie)

\* C18: pages are asked for in the order 1, 2, 3, ... without gap or
\* repetition; every page before the current one gave a success flag and a
\* non-empty list; and whenever a page is about to be asked for, the
\* accumulator is the concatenation, in order, of the lists of the pages
\* before it.
C18_AccumulatorInvariant ==
    pc \in {"list", "listed"} =>
        /\ reqPages = UpTo(Len(reqPages))
        /\ Len(got) \in {Len(reqPages) - 1, Len(reqPages)}
        /\ \A i \in DOMAIN got : got[i] # <<>>
        /\ pc = "list"
                => /\ Len(got) = page - 1
                   /\ all_weibos = Flatten(got)
                   /\ reqPages = UpTo(IF retry = 0 THEN page - 1 ELSE page)

C18_Witness ==
    /\ pc = "list" /\ retry = 0 /\ page = 3
    /\ got = <<<<1, 2>>, <<3>>>>
    /\ all_weibos = <<1, 2, 3>>
    /\ reqPages = <<1, 2>>

\* C20: a hide run with dry_run set never calls set_weibo_privacy, whatever
\* the listing gave and whatever skip and limit are: it asks for pages and
\* ends before the confirmation.
C20_DryRunReadOnly ==
    dry_run =>
        /\ calls = <<>>
        /\ results = <<>>
        /\ pc \in {"list", "listed", "exit_ok", "exit_err"}
        /\ success_count = 0
        /\ failed_count = 0

C20_Witness ==
    /\ dry_run
    /\ pc = "exit_ok"
    /\ Len(weibos_to_process) = 2
    /\ skip = 1
    /\ calls = <<>>

\* C19: every call of set_weibo_privacy returns; every listing with a
\* ceiling c returns, after at most 3 * c requests; a listing without
\* ceiling returns once a page is empty, flagged as failed, unparsable or
\* not fetched.
CallOpen == Len(calls) > Len(results)
ListRequestsBounded ==
    (IsSome(max_pages) /\ pc \in {"list", "listed"})
        => getCount <= MAX_RETRIES * Unwrap(max_pages)
ListEndsAtBadPage ==
    (pc = "list" /\ retry = 0 /\ reqPages # <<>>)
        => (Got2xx /\ last.body.shape = "object" /\ last.body.ok = Some(1)
            /\ IsSome(last.body.list) /\ Unwrap(last.body.list) # <<>>)
C19_ListReturns ==
    /\ (pc = "list") ~> (pc = "listed")
    /\ []ListRequestsBounded
    /\ []ListEndsAtBadPage
C19_EveryCallReturns ==
    /\ CallOpen ~> ~CallOpen
    /\ C19_ListReturns

\* every call of set_weibo_privacy ends: it returns or it panics
C19_EveryCallEnds == CallOpen ~> (~CallOpen \/ pc = "panic")

\* C21: the items of the set_weibo_privacy calls of a hide run are, in the
\* listed order, the listed items after the first skip, at most limit of
\* them: no other item is ever called for, the calls follow the slice from
\* its first item on, a run whose loop has ended has called for every item of
\* the slice, and an empty slice gives no call at all.
Slice(s, k, l) ==
    LET rest == IF Len(s) > k THEN Len(s) - k ELSE 0
        n == IF IsSome(l) /\ Unwrap(l) < rest THEN Unwrap(l) ELSE rest
    IN [i \in 1..n |-> s[k + i]]
Listed == IF listResult.done /\ listResult.ok THEN listResult.val ELSE <<>>
LoopEnded == pc \in {"mutate", "exit_ok"} /\ idx > Len(weibos_to_process) /\ ~dry_run
C21_WorkingSetIsSlice ==
    LET slice == Slice(Listed, skip, limit) IN
    /\ Len(calls) <= Len(slice)
    /\ \A i \in DOMAIN calls : calls[i] = slice[i]
    /\ pc \in {"confirm", "mutate", "panic"}
            => weibos_to_process = slice /\ slice # <<>>
    /\ (LoopEnded /\ weibos_to_process # <<>>) => calls = slice
    /\ slice = <<>>
            => /\ calls = <<>>
               /\ pc \in {"list", "listed", "exit_ok", "exit_err"}

C21_Witness ==
    /\ pc = "exit_ok"
    /\ skip = 1
    /\ limit = Some(1)
    /\ listResult.val = <<1, 2, 3>>
    /\ calls = <<2>>

=============================================================================
